---------------------------- MODULE Spec2Model ----------------------------
(***************************************************************************)
(* Model of YoloConteo's bidirectional line-crossing counter               *)
(* (src/bidirectional_counter.py, class BidirectionalCounter) as it is     *)
(* driven, one frame at a time, by YoloConteoApp._procesar_frame           *)
(* (src/main.py).                                                          *)
(*                                                                         *)
(* The track table is a Python dict; a dict iterates in insertion order,   *)
(* so it is modelled as a sequence of TrackInfo records, oldest first.     *)
(* Every method of the counter is an operator on the record                *)
(*   [tracks, contadores, siguiente_track_id, llamadas]                    *)
(* (the counter's mutable fields plus the calls made to callback_cruce);   *)
(* an action applies the whole handler to the current state.               *)
(***************************************************************************)
EXTENDS Integers, Sequences, FiniteSets

VARIABLES
    ancho_frame,              \* self.ancho_frame
    linea_posicion_relativa,  \* self.linea_posicion_relativa, in tenths
    linea_x,                  \* self.linea_x
    usar_deepsort,            \* self.usar_deepsort
    contadores,               \* self.contadores
    tracks,                   \* self.tracks, in insertion order
    siguiente_track_id,       \* self.siguiente_track_id
    entrada,                  \* detecciones given to the last procesar_detecciones
    resultado,                \* value returned by the last procesar_detecciones
    llamadas,                 \* calls of callback_cruce made by the last procesar_detecciones
    excepcion,                \* exception the last procesar_detecciones ended with, or None
    instantanea,              \* the mapping returned by the last obtener_contadores
    ultima_op,                \* the last operation run on the counter
    n_frames,                 \* number of frames processed so far
    ejecutando,               \* YoloConteoApp.ejecutando
    pausado,                  \* YoloConteoApp.pausado
    captura,                  \* YoloConteoApp.captura is a capture that is open
    hilo_video,               \* YoloConteoApp.hilo_video: a thread, or SinHilo for None
    pc,                       \* where each thread running _bucle_video stands
    gui,                      \* what the presentation thread is doing
    detenidos,                \* threads alive when _on_cerrar last cleared ejecutando
    frames_en_pausa,          \* frames each thread processed since pausado was last set
    buffer_registros          \* DataLogger.buffer_registros

\* the fields of YoloConteoApp, its threads and its DataLogger
aplicacion ==
    <<ejecutando, pausado, captura, hilo_video, pc, gui, detenidos, frames_en_pausa,
      buffer_registros>>

vars == <<ancho_frame, linea_posicion_relativa, linea_x, usar_deepsort,
          contadores, tracks, siguiente_track_id, entrada, resultado,
          llamadas, excepcion, instantanea, ultima_op, n_frames, aplicacion>>

(***************************************************************************)
(* Program constants                                                       *)
(***************************************************************************)
MargenCruce == 30

UmbralDistancia == 100

MaxHistorial == 50

Categorias == {"adulto", "nino", "bicicleta", "silla_ruedas", "movilidad_reducida"}

Direcciones == {"izq_der", "der_izq"}

None == "None"

\* the None that _encontrar_track_cercano returns instead of a track id
NingunTrack == 0

\* the tracker's track object has no get_det_class attribute
SinGetDetClass == "sin_get_det_class"

\* self.hilo_video is None
SinHilo == 0

(***************************************************************************)
(* Bounds of the model                                                     *)
(***************************************************************************)
\* frames processed in a behaviour of Spec
MaxFrames == 3

\* frames processed in a behaviour of SpecCruce
MaxMuestras == 5

\* threads that run _bucle_video at the same time in a behaviour of SpecHilos
MaxHilos == 2

Hilos == 1..MaxHilos

(***************************************************************************)
(* Data                                                                    *)
(***************************************************************************)
TrackInfo(id, categoria, cx, cy) ==
    [track_id |-> id,
     categoria |-> categoria,
     ultima_posicion_x |-> cx,
     posicion_inicial_x |-> cx,
     cruzado |-> FALSE,
     direccion_cruce |-> None,
     frames_vistos |-> 1,
     historial_posiciones |-> << <<cx, cy>> >>,
     ultimo_lado |-> "ninguno",
     puede_cruzar |-> TRUE,
     \* history of the TrackInfo object: one entry <<frames_vistos, direccion,
     \* counted>> per execution of _registrar_cruce for it
     registros |-> <<>>]

InicializarContadores == [c \in Categorias |-> [izq_der |-> 0, der_izq |-> 0]]

\* int(ancho * posicion_relativa), the position given in tenths
LineaX(ancho, rel10) == (ancho * rel10) \div 10

\* index of track_id in the table, 0 when it is not a key
IndiceTrack(tr, id) ==
    IF \E i \in 1..Len(tr) : tr[i].track_id = id
    THEN CHOOSE i \in 1..Len(tr) : tr[i].track_id = id
    ELSE 0

Ids(tr) == {tr[i].track_id : i \in 1..Len(tr)}

(***************************************************************************)
(* _encontrar_track_cercano                                                *)
(***************************************************************************)
\* (cx - ultimo_x)**2 + (cy - ultimo_y)**2: np.sqrt is strictly increasing and
\* exact on perfect squares, so distances are compared by their squares
Distancia2(cx, cy, ux, uy) == (cx - ux) * (cx - ux) + (cy - uy) * (cy - uy)

\* mutant: the gate admits a track exactly at the threshold
DentroDeUmbralInclusivo(d2) == d2 <= UmbralDistancia * UmbralDistancia

DentroDeUmbral(d2) == d2 < UmbralDistancia * UmbralDistancia

RECURSIVE BuscarCercano(_, _, _, _, _, _, _, _)
\* the loop over self.tracks.items(); dmin2 = -1 stands for float('inf')
BuscarCercano(tr, i, cx, cy, categoria, usados, dmin2, encontrado) ==
    IF i > Len(tr) THEN encontrado
    ELSE LET t == tr[i]
             h == t.historial_posiciones
             d2 == Distancia2(cx, cy, h[Len(h)][1], h[Len(h)][2])
         IN  IF t.track_id \in usados
                 THEN BuscarCercano(tr, i + 1, cx, cy, categoria, usados, dmin2, encontrado)
             ELSE IF t.categoria # categoria
                 THEN BuscarCercano(tr, i + 1, cx, cy, categoria, usados, dmin2, encontrado)
             ELSE IF h # <<>> /\ (dmin2 = -1 \/ d2 < dmin2) /\ DentroDeUmbral(d2)
                 THEN BuscarCercano(tr, i + 1, cx, cy, categoria, usados, d2, t.track_id)
             ELSE BuscarCercano(tr, i + 1, cx, cy, categoria, usados, dmin2, encontrado)

\* mutant: the first track within the threshold is taken, not the nearest
EncontrarPrimerTrack(tr, cx, cy, categoria, usados) ==
    LET dentro == {i \in 1..Len(tr) :
                      /\ tr[i].track_id \notin usados
                      /\ tr[i].categoria = categoria
                      /\ LET h == tr[i].historial_posiciones
                         IN  DentroDeUmbral(Distancia2(cx, cy, h[Len(h)][1], h[Len(h)][2]))}
    IN  IF dentro = {} THEN NingunTrack
        ELSE tr[CHOOSE i \in dentro : \A m \in dentro : i <= m].track_id

\* mutant: tracks already assigned in the frame are not skipped
EncontrarTrackCercanoSinUsados(tr, cx, cy, categoria, usados) ==
    BuscarCercano(tr, 1, cx, cy, categoria, {}, -1, NingunTrack)

EncontrarTrackCercano(tr, cx, cy, categoria, usados) ==
    BuscarCercano(tr, 1, cx, cy, categoria, usados, -1, NingunTrack)

(***************************************************************************)
(* _actualizar_track                                                       *)
(***************************************************************************)
\* mutant: the newest samples are dropped instead of the oldest
PrimerasPosiciones(h) ==
    IF Len(h) > MaxHistorial THEN SubSeq(h, 1, MaxHistorial) ELSE h

UltimasPosiciones(h) ==
    IF Len(h) > MaxHistorial THEN SubSeq(h, Len(h) - MaxHistorial + 1, Len(h)) ELSE h

ActualizarTrack(tr, id, categoria, cx, cy) ==
    LET i == IndiceTrack(tr, id)
    IN  IF i = 0 THEN Append(tr, TrackInfo(id, categoria, cx, cy))
        ELSE [tr EXCEPT ![i] =
                [@ EXCEPT !.ultima_posicion_x = cx,
                          !.frames_vistos = @ + 1,
                          !.historial_posiciones = UltimasPosiciones(Append(@, <<cx, cy>>))]]

(***************************************************************************)
(* _registrar_cruce                                                        *)
(***************************************************************************)
\* mutant: the increment lands on every category
IncrementarTodas(cont, categoria, direccion) ==
    [c \in DOMAIN cont |-> [cont[c] EXCEPT ![direccion] = @ + 1]]

Incrementar(cont, categoria, direccion) ==
    [cont EXCEPT ![categoria][direccion] = @ + 1]

\* mutant: a crossing is counted without the track being marked as crossed
RegistrarCruceSinMarcar(s, id, direccion) ==
    LET i == IndiceTrack(s.tracks, id)
    IN  IF i = 0 THEN s
        ELSE LET categoria == s.tracks[i].categoria
                 anotado == [s.tracks EXCEPT ![i] =
                                [@ EXCEPT !.direccion_cruce = direccion,
                                          !.registros =
                                              Append(@, <<s.tracks[i].frames_vistos,
                                                          direccion, TRUE>>)]]
                 incrementados == Incrementar(s.contadores, categoria, direccion)
             IN  IF categoria \in DOMAIN s.contadores
                 THEN [s EXCEPT !.tracks = anotado,
                                !.contadores = incrementados,
                                !.llamadas = Append(@, <<categoria, direccion, id,
                                                         incrementados[categoria][direccion],
                                                         incrementados>>)]
                 ELSE s

\* mutant: callback_cruce is called before the cell is incremented
RegistrarCruceLlamandoAntes(s, id, direccion) ==
    LET i == IndiceTrack(s.tracks, id)
    IN  IF i = 0 THEN s
        ELSE LET categoria == s.tracks[i].categoria
                 contado == categoria \in DOMAIN s.contadores
                 marcado == [s.tracks EXCEPT ![i] =
                                [@ EXCEPT !.cruzado = TRUE,
                                          !.direccion_cruce = direccion,
                                          !.registros =
                                              Append(@, <<s.tracks[i].frames_vistos,
                                                          direccion, contado>>)]]
             IN  IF contado
                 THEN [s EXCEPT !.tracks = marcado,
                                !.contadores = Incrementar(@, categoria, direccion),
                                !.llamadas = Append(@, <<categoria, direccion, id,
                                                         s.contadores[categoria][direccion],
                                                         s.contadores>>)]
                 ELSE [s EXCEPT !.tracks = marcado]

\* a call of callback_cruce is recorded as <<categoria, direccion, track_id, n,
\* cont>>, cont being the counters as the callback finds them and n the value
\* of the cell [categoria][direccion] in them
RegistrarCruce(s, id, direccion) ==
    LET i == IndiceTrack(s.tracks, id)
    IN  IF i = 0 THEN s
        ELSE LET categoria == s.tracks[i].categoria
                 contado == categoria \in DOMAIN s.contadores
                 marcado == [s.tracks EXCEPT ![i] =
                                [@ EXCEPT !.cruzado = TRUE,
                                          !.direccion_cruce = direccion,
                                          !.registros =
                                              Append(@, <<s.tracks[i].frames_vistos,
                                                          direccion, contado>>)]]
                 incrementados == Incrementar(s.contadores, categoria, direccion)
             IN  IF contado
                 THEN [s EXCEPT !.tracks = marcado,
                                !.contadores = incrementados,
                                !.llamadas = Append(@, <<categoria, direccion, id,
                                                         incrementados[categoria][direccion],
                                                         incrementados>>)]
                 ELSE [s EXCEPT !.tracks = marcado]

(***************************************************************************)
(* _verificar_cruce                                                        *)
(***************************************************************************)
\* mutant: a sample on the line counts again when the track leaves it
CruceIzqDerAlSalir(anterior, actual, linea) == anterior <= linea /\ actual >= linea

\* mutant: a sample exactly on the line does not count as having crossed
CruceIzqDerEstricto(anterior, actual, linea) == anterior < linea /\ actual > linea

CruceIzqDer(anterior, actual, linea) == anterior < linea /\ actual >= linea

\* mutant: a sample exactly on the line does not count as having crossed
CruceDerIzqEstricto(anterior, actual, linea) == anterior > linea /\ actual < linea

CruceDerIzq(anterior, actual, linea) == anterior > linea /\ actual <= linea

Abs(n) == IF n < 0 THEN -n ELSE n

\* mutant: the track is re-armed already at the margin
LejosDeLineaInclusivo(actual, linea) == Abs(actual - linea) >= MargenCruce

\* mutant: the track is re-armed as soon as it is off the line
LejosDeLineaSinMargen(actual, linea) == Abs(actual - linea) > 0

LejosDeLinea(actual, linea) == Abs(actual - linea) > MargenCruce

Desarmar(s, id, lado) ==
    LET i == IndiceTrack(s.tracks, id)
    IN  [s EXCEPT !.tracks[i].puede_cruzar = FALSE, !.tracks[i].ultimo_lado = lado]

VerificarCruce(s, id, linea) ==
    LET i == IndiceTrack(s.tracks, id)
    IN  IF i = 0 THEN s
        ELSE LET t == s.tracks[i]
                 h == t.historial_posiciones
                 anterior == h[Len(h) - 1][1]
                 actual == h[Len(h)][1]
             IN  IF Len(h) < 2 THEN s
                 ELSE IF CruceIzqDer(anterior, actual, linea)
                     THEN IF t.puede_cruzar
                          THEN Desarmar(RegistrarCruce(s, id, "izq_der"), id, "derecha")
                          ELSE s
                 ELSE IF CruceDerIzq(anterior, actual, linea)
                     THEN IF t.puede_cruzar
                          THEN Desarmar(RegistrarCruce(s, id, "der_izq"), id, "izquierda")
                          ELSE s
                 ELSE IF LejosDeLinea(actual, linea)
                     THEN [s EXCEPT !.tracks[i].puede_cruzar = TRUE]
                 ELSE s

(***************************************************************************)
(* _limpiar_tracks_antiguos                                                *)
(***************************************************************************)
\* mutant: every track absent from the frame is removed
ConservadoSoloActivos(t, activos) == t.track_id \in activos

Conservado(t, activos) == t.track_id \in activos \/ ~t.cruzado

LimpiarTracksAntiguos(tr, activos) == SelectSeq(tr, LAMBDA t : Conservado(t, activos))

(***************************************************************************)
(* _procesar_con_tracker_simple                                            *)
(***************************************************************************)
\* mutant: the id sequence does not advance when a track is created
CrearTrackSinAvanzar(s, categoria, cx, cy) ==
    [s EXCEPT !.tracks = Append(@, TrackInfo(s.siguiente_track_id, categoria, cx, cy))]

\* the branch "track_id is None": the new track takes siguiente_track_id
CrearTrack(s, categoria, cx, cy) ==
    [s EXCEPT !.siguiente_track_id = @ + 1,
              !.tracks = Append(@, TrackInfo(s.siguiente_track_id, categoria, cx, cy))]

\* det[campo] on a dict without the key raises KeyError
Falta(det, campos) == ~(campos \subseteq DOMAIN det)

\* det['centro'] and det['categoria'] are read at the head of each iteration:
\* a KeyError leaves the loop with what the earlier detections of the list
\* already did, and before _limpiar_tracks_antiguos
RECURSIVE BucleTrackerSimple(_, _, _, _, _, _)
BucleTrackerSimple(s, detecciones, k, usados, con_id, linea) ==
    IF k > Len(detecciones)
    THEN [s |-> [s EXCEPT !.tracks = LimpiarTracksAntiguos(@, usados)],
          res |-> con_id, exc |-> None]
    ELSE LET det == detecciones[k]
             cx == det.centro[1]
             cy == det.centro[2]
             hallado == EncontrarTrackCercano(s.tracks, cx, cy, det.categoria, usados)
             id == IF hallado = NingunTrack THEN s.siguiente_track_id ELSE hallado
             s1 == IF hallado = NingunTrack
                   THEN CrearTrack(s, det.categoria, cx, cy)
                   ELSE [s EXCEPT !.tracks = ActualizarTrack(@, id, det.categoria, cx, cy)]
             s2 == VerificarCruce(s1, id, linea)
         IN  IF Falta(det, {"centro", "categoria"})
             THEN [s |-> s, res |-> <<>>, exc |-> "KeyError"]
             ELSE BucleTrackerSimple(s2, detecciones, k + 1, usados \cup {id},
                                     Append(con_id, [centro |-> det.centro,
                                                     categoria |-> det.categoria,
                                                     track_id |-> id]),
                                     linea)

ProcesarConTrackerSimple(s, detecciones, linea) ==
    BucleTrackerSimple(s, detecciones, 1, {}, <<>>, linea)

(***************************************************************************)
(* _procesar_con_deepsort: salida is what tracker.update_tracks returns,   *)
(* a list of [track_id, confirmado, ltrb, clase] with ltrb already         *)
(* truncated to integers                                                   *)
(***************************************************************************)
CategoriaDeTrack(clase) == IF clase = SinGetDetClass THEN "adulto" ELSE clase

RECURSIVE BucleDeepsort(_, _, _, _, _)
BucleDeepsort(s, salida, k, con_id, linea) ==
    IF k > Len(salida) THEN [s |-> s, res |-> con_id, exc |-> None]
    ELSE LET track == salida[k]
             cx == (track.ltrb[1] + track.ltrb[3]) \div 2
             cy == (track.ltrb[2] + track.ltrb[4]) \div 2
             categoria == CategoriaDeTrack(track.clase)
             s1 == [s EXCEPT !.tracks = ActualizarTrack(@, track.track_id, categoria, cx, cy)]
             s2 == VerificarCruce(s1, track.track_id, linea)
         IN  IF ~track.confirmado
             THEN BucleDeepsort(s, salida, k + 1, con_id, linea)
             ELSE BucleDeepsort(s2, salida, k + 1,
                                Append(con_id, [centro |-> <<cx, cy>>,
                                                categoria |-> categoria,
                                                track_id |-> track.track_id]),
                                linea)

\* tracker.update_tracks raises instead of returning a list of tracks
TrackerLanza == <<[excepcion |-> "Exception"]>>

Lanza(salida) == Len(salida) = 1 /\ "excepcion" \in DOMAIN salida[1]

\* the conversion loop reads det['bbox'], det['confianza'], det['categoria']
\* of every detection before the tracker is called
FaltaParaDeepsort(detecciones) ==
    \E k \in 1..Len(detecciones) :
        Falta(detecciones[k], {"bbox", "confianza", "categoria"})

\* nothing catches the KeyError of the conversion or what update_tracks
\* raises: either leaves procesar_detecciones
ProcesarConDeepsort(s, detecciones, salida, linea) ==
    IF FaltaParaDeepsort(detecciones) THEN [s |-> s, res |-> <<>>, exc |-> "KeyError"]
    ELSE IF Lanza(salida) THEN [s |-> s, res |-> <<>>, exc |-> salida[1].excepcion]
    ELSE BucleDeepsort(s, salida, 1, <<>>, linea)

(***************************************************************************)
(* procesar_detecciones                                                    *)
(***************************************************************************)
Estado ==
    [tracks |-> tracks, contadores |-> contadores,
     siguiente_track_id |-> siguiente_track_id, llamadas |-> <<>>]

Procesado(detecciones, frame, salida) ==
    IF detecciones = <<>> THEN [s |-> Estado, res |-> <<>>, exc |-> None]
    ELSE IF usar_deepsort /\ frame # None
        THEN ProcesarConDeepsort(Estado, detecciones, salida, linea_x)
    ELSE ProcesarConTrackerSimple(Estado, detecciones, linea_x)

ProcesarDetecciones(detecciones, frame, salida) ==
    LET r == Procesado(detecciones, frame, salida)
    IN  /\ tracks' = r.s.tracks
        /\ contadores' = r.s.contadores
        /\ siguiente_track_id' = r.s.siguiente_track_id
        /\ llamadas' = r.s.llamadas
        /\ entrada' = detecciones
        /\ resultado' = r.res
        /\ excepcion' = r.exc
        /\ ultima_op' = "procesar_detecciones"
        /\ n_frames' = n_frames + 1
        /\ UNCHANGED <<ancho_frame, linea_posicion_relativa, linea_x, usar_deepsort,
                       instantanea>>

(***************************************************************************)
(* obtener_contadores returns self.contadores.copy(): a new outer dict     *)
(* whose values are the counter's own inner dicts.  The returned mapping   *)
(* is modelled by what is read through it: while its inner dicts are still *)
(* the counter's (compartida) it reads contadores itself; once             *)
(* reiniciar_contadores has given the counter new dicts it reads the old   *)
(* dicts, kept in propia.  al_tomar keeps the counts at the time of the    *)
(* call, escrita whether the holder wrote through the mapping.             *)
(***************************************************************************)
SinInstantanea ==
    [tomada |-> FALSE, compartida |-> FALSE, escrita |-> FALSE,
     al_tomar |-> InicializarContadores, propia |-> InicializarContadores]

\* the counts read through the returned mapping
LeidoPor(inst, cont) == IF inst.compartida THEN cont ELSE inst.propia

\* the counter drops its inner dicts: the mapping keeps them, with their counts
Desligada(inst, cont) ==
    IF inst.compartida THEN [inst EXCEPT !.compartida = FALSE, !.propia = cont] ELSE inst

(***************************************************************************)
(* obtener_total_cruces, reiniciar_contadores                              *)
(***************************************************************************)
RECURSIVE Suma(_, _, _)
Suma(cont, cats, direccion) ==
    IF cats = {} THEN 0
    ELSE LET c == CHOOSE x \in cats : TRUE
         IN  cont[c][direccion] + Suma(cont, cats \ {c}, direccion)

ObtenerTotalCruces(cont) ==
    [izq_der |-> Suma(cont, DOMAIN cont, "izq_der"),
     der_izq |-> Suma(cont, DOMAIN cont, "der_izq"),
     total |-> Suma(cont, DOMAIN cont, "izq_der") + Suma(cont, DOMAIN cont, "der_izq")]

\* mutant: the id sequence is not restarted
ReiniciarSinId ==
    /\ contadores' = InicializarContadores
    /\ tracks' = <<>>
    /\ instantanea' = Desligada(instantanea, contadores)
    /\ ultima_op' = "reiniciar_contadores"
    /\ UNCHANGED <<ancho_frame, linea_posicion_relativa, linea_x, usar_deepsort,
                   entrada, resultado, llamadas, excepcion, n_frames, siguiente_track_id,
                   aplicacion>>

\* mutant: the track table is not cleared
ReiniciarSinTracks ==
    /\ contadores' = InicializarContadores
    /\ siguiente_track_id' = 1
    /\ instantanea' = Desligada(instantanea, contadores)
    /\ ultima_op' = "reiniciar_contadores"
    /\ UNCHANGED <<ancho_frame, linea_posicion_relativa, linea_x, usar_deepsort,
                   entrada, resultado, llamadas, excepcion, n_frames, tracks,
                   aplicacion>>

\* what reiniciar_contadores does to the counter
ReinicioDelContador ==
    /\ contadores' = InicializarContadores
    /\ tracks' = <<>>
    /\ siguiente_track_id' = 1
    /\ instantanea' = Desligada(instantanea, contadores)
    /\ ultima_op' = "reiniciar_contadores"
    /\ UNCHANGED <<ancho_frame, linea_posicion_relativa, linea_x, usar_deepsort,
                   entrada, resultado, llamadas, excepcion, n_frames>>

\* reiniciar_contadores called on the counter alone
ReiniciarContadores ==
    /\ ReinicioDelContador
    /\ UNCHANGED aplicacion

(***************************************************************************)
(* DataLogger.registrar_cruce as _on_cruce_detectado calls it, with the    *)
(* mapping it has just taken from obtener_contadores; of a record only the *)
(* fields computed from the call are kept.  DataLogger.limpiar_datos.      *)
(***************************************************************************)
NombresTipo ==
    [adulto |-> "Adulto", nino |-> "Nino", bicicleta |-> "Bicicleta",
     silla_ruedas |-> "Silla_Ruedas", movilidad_reducida |-> "Movilidad_Reducida"]

Registro(categoria, direccion, cont) ==
    LET contador_cat == IF categoria \in DOMAIN cont THEN cont[categoria]
                        ELSE [izq_der |-> 0, der_izq |-> 0]
        total_dir0 == Suma(cont, DOMAIN cont, "izq_der")
        total_dir1 == Suma(cont, DOMAIN cont, "der_izq")
    IN  [tipo |-> IF categoria \in DOMAIN NombresTipo THEN NombresTipo[categoria]
                  ELSE categoria,
         direccion |-> IF direccion = "izq_der" THEN 0 ELSE 1,
         total_tipo |-> contador_cat.izq_der + contador_cat.der_izq,
         total_dir0 |-> total_dir0,
         total_dir1 |-> total_dir1,
         total_sesion |-> total_dir0 + total_dir1]

\* _on_cruce_detectado for one call of callback_cruce
OnCruceDetectado(buffer, llamada) ==
    Append(buffer, Registro(llamada[1], llamada[2], llamada[5]))

\* the calls of callback_cruce of one procesar_detecciones, in the order made
RECURSIVE CrucesDetectados(_, _, _)
CrucesDetectados(buffer, hechas, k) ==
    IF k > Len(hechas) THEN buffer
    ELSE CrucesDetectados(OnCruceDetectado(buffer, hechas[k]), hechas, k + 1)

\* mutant: the buffer is left as it is
LimpiarDatosSinVaciar(buffer) == buffer

LimpiarDatos(buffer) == <<>>

(***************************************************************************)
(* YoloConteoApp.__init__: nothing runs, no capture, no thread             *)
(***************************************************************************)
InitAplicacion ==
    /\ ejecutando = FALSE
    /\ pausado = FALSE
    /\ captura = FALSE
    /\ hilo_video = SinHilo
    /\ pc = [h \in Hilos |-> "sin_crear"]
    /\ gui = "libre"
    /\ detenidos = {}
    /\ frames_en_pausa = [h \in Hilos |-> 0]
    /\ buffer_registros = <<>>

(***************************************************************************)
(* Construction                                                            *)
(***************************************************************************)
AnchosFrame == {300}

PosicionesRelativas == {5}

Init ==
    /\ ancho_frame \in AnchosFrame
    /\ linea_posicion_relativa \in PosicionesRelativas
    /\ linea_x = LineaX(ancho_frame, linea_posicion_relativa)
    /\ usar_deepsort \in BOOLEAN
    /\ contadores = InicializarContadores
    /\ tracks = <<>>
    /\ siguiente_track_id = 1
    /\ entrada = <<>>
    /\ resultado = <<>>
    /\ llamadas = <<>>
    /\ excepcion = None
    /\ instantanea = SinInstantanea
    /\ ultima_op = "init"
    /\ n_frames = 0
    /\ InitAplicacion

(***************************************************************************)
(* Inputs of Spec: frames with up to two detections, two categories, and   *)
(* the matching outputs of the external tracker                            *)
(***************************************************************************)
\* a detection as DetectorYOLO.detectar builds it; confianza in hundredths
Det(cx, cy, categoria) ==
    [bbox |-> <<cx - 20, cy - 20, cx + 20, cy + 20>>, categoria |-> categoria,
     confianza |-> 90, centro |-> <<cx, cy>>]

\* (100,0)-(190,0): 90 px apart, on both sides of the line at 150;
\* (100,0)-(20,60): exactly 100 px apart; (190,0)-(20,60): more than 100 px
Detectables ==
    {Det(100, 0, "adulto"), Det(190, 0, "adulto"), Det(20, 60, "adulto"),
     Det(100, 0, "bicicleta")}

Entradas ==
    {<<>>} \cup {<<d>> : d \in Detectables}
           \cup ({<<d, e>> : d \in Detectables, e \in Detectables}
                    \ {<<d, d>> : d \in Detectables})

TrackExterno(id, confirmado, cx, clase) ==
    [track_id |-> id, confirmado |-> confirmado,
     ltrb |-> <<cx - 20, 20, cx + 20, 61>>, clase |-> clase]

SalidasUno ==
    {TrackExterno(1, TRUE, x, c) : x \in {100, 190}, c \in {"adulto", None}}

SalidasDos ==
    {TrackExterno(2, TRUE, x, "bicicleta") : x \in {100, 190}}

SalidasTracker ==
    {<<>>, <<TrackExterno(2, FALSE, 100, "adulto")>>,
     <<TrackExterno(2, TRUE, 100, SinGetDetClass)>>,
     <<TrackExterno(1, TRUE, 190, "bicicleta")>>}
        \cup {<<t>> : t \in SalidasUno \cup SalidasDos}
        \cup {<<t, u>> : t \in SalidasUno, u \in SalidasDos}

Frame ==
    /\ n_frames < MaxFrames
    /\ IF usar_deepsort
       THEN \/ ProcesarDetecciones(<<>>, "frame", <<>>)
            \/ \E salida \in SalidasTracker :
                   ProcesarDetecciones(<<Det(100, 0, "adulto")>>, "frame", salida)
       ELSE \E detecciones \in Entradas :
                ProcesarDetecciones(detecciones, "frame", <<>>)
    /\ UNCHANGED aplicacion

Next == Frame \/ ReiniciarContadores

Spec == Init /\ [][Next]_vars

(***************************************************************************)
(* Inputs of SpecCruce: one object of one category sampled frame after     *)
(* frame at positions on both sides of the line at 150 (100 and 190 are    *)
(* beyond the margin of 30, 120 is exactly at it, 170 within it)           *)
(***************************************************************************)
Pasos == {100, 120, 150, 170, 190}

EntradasCruce == {<<>>} \cup {<<Det(x, 0, "adulto")>> : x \in Pasos}

SalidasCruce == {<<>>} \cup {<<TrackExterno(1, TRUE, x, "adulto")>> : x \in Pasos}

FrameCruce ==
    /\ n_frames < MaxMuestras
    /\ IF usar_deepsort
       THEN \/ ProcesarDetecciones(<<>>, "frame", <<>>)
            \/ \E salida \in SalidasCruce :
                   ProcesarDetecciones(<<Det(100, 0, "adulto")>>, "frame", salida)
       ELSE \E detecciones \in EntradasCruce :
                ProcesarDetecciones(detecciones, "frame", <<>>)
    /\ UNCHANGED aplicacion

NextCruce == FrameCruce \/ ReiniciarContadores

SpecCruce == Init /\ [][NextCruce]_vars

(***************************************************************************)
(* Inputs of SpecOrden: an 'adulto' and a 'bicicleta' that cross the line  *)
(* in the same frame, listed by the detector in either order; the external *)
(* tracker returns one track per detection, track 1 (the 'adulto') first   *)
(***************************************************************************)
\* frames processed in a behaviour of SpecOrden
MaxFramesOrden == 3

EntradasOrden ==
    UNION {{<<Det(x, 0, "adulto")>>, <<Det(x, 0, "bicicleta")>>,
            <<Det(x, 0, "adulto"), Det(x, 0, "bicicleta")>>,
            <<Det(x, 0, "bicicleta"), Det(x, 0, "adulto")>>} : x \in {100, 190}}

SalidasOrden ==
    UNION {{<<TrackExterno(1, TRUE, x, "adulto")>>, <<TrackExterno(2, TRUE, x, "bicicleta")>>,
            <<TrackExterno(1, TRUE, x, "adulto"), TrackExterno(2, TRUE, x, "bicicleta")>>}
               : x \in {100, 190}}

CategoriasDe(lista) == {lista[k].categoria : k \in 1..Len(lista)}

ClasesDe(salida) == {salida[k].clase : k \in 1..Len(salida)}

FrameOrden ==
    /\ n_frames < MaxFramesOrden
    /\ IF usar_deepsort
       THEN \E detecciones \in EntradasOrden :
                \E salida \in {sal \in SalidasOrden : ClasesDe(sal) = CategoriasDe(detecciones)} :
                    ProcesarDetecciones(detecciones, "frame", salida)
       ELSE \E detecciones \in EntradasOrden :
                ProcesarDetecciones(detecciones, "frame", <<>>)
    /\ UNCHANGED aplicacion

NextOrden == FrameOrden \/ ReiniciarContadores

SpecOrden == Init /\ [][NextOrden]_vars

(***************************************************************************)
(* actualizar_posicion_linea, actualizar_dimensiones; relative positions   *)
(* are in tenths, and int(ancho * posicion) is exact for the widths used   *)
(***************************************************************************)
Min(a, b) == IF a < b THEN a ELSE b

Max(a, b) == IF a > b THEN a ELSE b

ActualizarPosicionLinea(posicion_relativa) ==
    /\ linea_posicion_relativa' = Max(1, Min(9, posicion_relativa))
    /\ linea_x' = LineaX(ancho_frame, linea_posicion_relativa')
    /\ ultima_op' = "actualizar_posicion_linea"
    /\ UNCHANGED <<ancho_frame, usar_deepsort, contadores, tracks,
                   siguiente_track_id, entrada, resultado, llamadas, excepcion,
                   instantanea, n_frames>>

ActualizarDimensiones(ancho) ==
    /\ ancho_frame' = ancho
    /\ linea_x' = LineaX(ancho, linea_posicion_relativa)
    /\ ultima_op' = "actualizar_dimensiones"
    /\ UNCHANGED <<linea_posicion_relativa, usar_deepsort, contadores, tracks,
                   siguiente_track_id, entrada, resultado, llamadas, excepcion,
                   instantanea, n_frames>>

(***************************************************************************)
(* SpecLinea: a counter built with any relative position from 0.0 to 1.0,  *)
(* whose line and frame width are changed between frames                   *)
(***************************************************************************)
\* frames processed in a behaviour of SpecLinea
MaxFramesLinea == 2

AnchosLinea == {300, 320}

\* linea_posicion_relativa given to the constructor: 0.0, 0.1, ..., 1.0
PosicionesConstruccion == 0..10

\* posicion_relativa given to actualizar_posicion_linea: below, in and above [0.1, 0.9]
PosicionesPedidas == {-2, 0, 1, 5, 9, 10, 12}

InitLinea ==
    /\ ancho_frame = 300
    /\ linea_posicion_relativa \in PosicionesConstruccion
    /\ linea_x = LineaX(ancho_frame, linea_posicion_relativa)
    /\ usar_deepsort \in BOOLEAN
    /\ contadores = InicializarContadores
    /\ tracks = <<>>
    /\ siguiente_track_id = 1
    /\ entrada = <<>>
    /\ resultado = <<>>
    /\ llamadas = <<>>
    /\ excepcion = None
    /\ instantanea = SinInstantanea
    /\ ultima_op = "init"
    /\ n_frames = 0
    /\ InitAplicacion

EntradasLinea == {<<Det(x, 0, "adulto")>> : x \in {100, 190}}

SalidasLinea == {<<TrackExterno(1, TRUE, x, "adulto")>> : x \in {100, 190}}

FrameLinea ==
    /\ n_frames < MaxFramesLinea
    /\ IF usar_deepsort
       THEN \E salida \in SalidasLinea :
                ProcesarDetecciones(<<Det(100, 0, "adulto")>>, "frame", salida)
       ELSE \E detecciones \in EntradasLinea :
                ProcesarDetecciones(detecciones, "frame", <<>>)
    /\ UNCHANGED aplicacion

CambioLinea ==
    /\ \E posicion \in PosicionesPedidas : ActualizarPosicionLinea(posicion)
    /\ UNCHANGED aplicacion

CambioDimensiones ==
    /\ \E ancho \in AnchosLinea : ActualizarDimensiones(ancho)
    /\ UNCHANGED aplicacion

NextLinea == FrameLinea \/ CambioLinea \/ CambioDimensiones

SpecLinea == InitLinea /\ [][NextLinea]_vars

(***************************************************************************)
(* YoloConteoApp: the threads that run _bucle_video and the handlers that  *)
(* the presentation thread runs one at a time.  A thread stands at         *)
(*   "while"       the test of self.ejecutando                             *)
(*   "if_pausado"  the test of self.pausado                                *)
(*   "if_captura"  the test of self.captura                                *)
(*   "read"        self.captura.read()                                     *)
(*   "procesar"    _procesar_frame and the rest of the iteration           *)
(*   "fin"         it has left _bucle_video                                *)
(* and "sin_crear" is a thread that does not exist yet.                    *)
(***************************************************************************)
\* the counter's fields and what the model records about its last calls
conteo ==
    <<ancho_frame, linea_posicion_relativa, linea_x, usar_deepsort, contadores,
      tracks, siguiente_track_id, entrada, resultado, llamadas, excepcion,
      instantanea, ultima_op, n_frames>>

\* frames captured in a behaviour of SpecHilos
MaxFramesHilos == 2

Vivo(h) == pc[h] \notin {"sin_crear", "fin"}

Vivos == {h \in Hilos : Vivo(h)}

SinFramesEnPausa == [h \in Hilos |-> 0]

\* while self.ejecutando:
RevisarEjecutando(h) ==
    /\ pc[h] = "while"
    /\ pc' = [pc EXCEPT ![h] = IF ejecutando THEN "if_pausado" ELSE "fin"]
    /\ UNCHANGED <<conteo, buffer_registros, ejecutando, pausado, captura, hilo_video,
                   gui, detenidos, frames_en_pausa>>

\* mutant: the loop does not look at self.pausado
RevisarPausaSinMirar(h) ==
    /\ pc[h] = "if_pausado"
    /\ pc' = [pc EXCEPT ![h] = "if_captura"]
    /\ UNCHANGED <<conteo, buffer_registros, ejecutando, pausado, captura, hilo_video,
                   gui, detenidos, frames_en_pausa>>

\* if self.pausado: sleep, continue
RevisarPausa(h) ==
    /\ pc[h] = "if_pausado"
    /\ pc' = [pc EXCEPT ![h] = IF pausado THEN "while" ELSE "if_captura"]
    /\ UNCHANGED <<conteo, buffer_registros, ejecutando, pausado, captura, hilo_video,
                   gui, detenidos, frames_en_pausa>>

\* if self.captura is None or not self.captura.isOpened(): sleep, continue
RevisarCaptura(h) ==
    /\ pc[h] = "if_captura"
    /\ pc' = [pc EXCEPT ![h] = IF captura THEN "read" ELSE "while"]
    /\ UNCHANGED <<conteo, buffer_registros, ejecutando, pausado, captura, hilo_video,
                   gui, detenidos, frames_en_pausa>>

\* ret, frame = self.captura.read(); the camera gives MaxFramesHilos frames at
\* most.  When the presentation thread has released the capture since the
\* test, self.captura is None (AttributeError, the thread ends) or a released
\* capture (ret is False).
LeerFrame(h) ==
    /\ pc[h] = "read"
    /\ \E ret \in BOOLEAN :
           /\ ret => captura /\ n_frames < MaxFramesHilos
           /\ pc' = [pc EXCEPT ![h] = IF ret THEN "procesar"
                                      ELSE IF captura THEN "while"
                                      ELSE "fin"]
    /\ UNCHANGED <<conteo, buffer_registros, ejecutando, pausado, captura, hilo_video,
                   gui, detenidos, frames_en_pausa>>

\* the object in front of the camera is left of the line in odd frames and
\* right of it in even ones
PosicionEnEscena == IF n_frames % 2 = 0 THEN 100 ELSE 190

\* what DetectorYOLO.detectar returns; <<>> also when the model raises, which
\* detectar catches
EntradasHilos == {<<>>, <<Det(PosicionEnEscena, 0, "adulto")>>}

SalidasHilos == {TrackerLanza, <<TrackExterno(1, TRUE, PosicionEnEscena, "adulto")>>}

\* _procesar_frame and the rest of the iteration; an exception that leaves
\* procesar_detecciones leaves _bucle_video too
ProcesarFrame(h) ==
    /\ pc[h] = "procesar"
    /\ IF usar_deepsort
       THEN \E detecciones \in EntradasHilos : \E salida \in SalidasHilos :
                ProcesarDetecciones(detecciones, "frame", salida)
       ELSE \E detecciones \in EntradasHilos :
                ProcesarDetecciones(detecciones, "frame", <<>>)
    /\ pc' = [pc EXCEPT ![h] = IF excepcion' = None THEN "while" ELSE "fin"]
    /\ buffer_registros' = CrucesDetectados(buffer_registros, llamadas', 1)
    /\ frames_en_pausa' = [frames_en_pausa EXCEPT ![h] = IF pausado THEN @ + 1 ELSE @]
    /\ UNCHANGED <<ejecutando, pausado, captura, hilo_video, gui, detenidos>>

\* the thread object that threading.Thread creates: one that is not running
HiloLibre == CHOOSE h \in Hilos : ~Vivo(h) /\ \A k \in Hilos : ~Vivo(k) => h <= k

\* _on_iniciar, with _inicializar_webcam failing or opening the capture
OnIniciar ==
    /\ gui = "libre"
    /\ ~ejecutando
    /\ \/ /\ captura' = FALSE
          /\ UNCHANGED <<conteo, buffer_registros, ejecutando, pausado, hilo_video, pc,
                         gui, detenidos, frames_en_pausa>>
       \/ /\ Vivos # Hilos
          /\ captura' = TRUE
          /\ ActualizarDimensiones(ancho_frame)
          /\ ejecutando' = TRUE
          /\ pausado' = FALSE
          /\ hilo_video' = HiloLibre
          /\ pc' = [pc EXCEPT ![HiloLibre] = "while"]
          /\ detenidos' = detenidos \ {HiloLibre}
          /\ frames_en_pausa' = SinFramesEnPausa
          /\ UNCHANGED <<gui, buffer_registros>>

\* _on_pausar; the button is enabled while the application is running
OnPausar ==
    /\ gui = "libre"
    /\ ejecutando
    /\ pausado' = ~pausado
    /\ frames_en_pausa' = SinFramesEnPausa
    /\ UNCHANGED <<conteo, buffer_registros, ejecutando, captura, hilo_video, pc, gui,
                   detenidos>>

\* _on_cerrar up to hilo_video.join(timeout=2.0), or to its end when there is
\* no live thread to wait for
OnCerrar ==
    /\ gui = "libre"
    /\ ejecutando
    /\ ejecutando' = FALSE
    /\ pausado' = FALSE
    /\ frames_en_pausa' = SinFramesEnPausa
    /\ detenidos' = detenidos \cup Vivos
    /\ IF hilo_video # SinHilo /\ Vivo(hilo_video)
       THEN gui' = "join" /\ UNCHANGED captura
       ELSE gui' = "libre" /\ captura' = FALSE
    /\ UNCHANGED <<conteo, buffer_registros, hilo_video, pc>>

\* join returns, the thread having ended or the 2 s having passed (they can
\* pass while the thread is inside captura.read() or _procesar_frame, the calls
\* of an iteration that can last that long), and _on_cerrar goes on:
\* hilo_video = None, _liberar_webcam
FinDeJoin ==
    /\ gui = "join"
    /\ pc[hilo_video] \in {"fin", "read", "procesar"}
    /\ hilo_video' = SinHilo
    /\ captura' = FALSE
    /\ gui' = "libre"
    /\ UNCHANGED <<conteo, buffer_registros, ejecutando, pausado, pc, detenidos,
                   frames_en_pausa>>

\* _on_reiniciar: the counter, then the logger's buffer
OnReiniciar ==
    /\ gui = "libre"
    /\ ReinicioDelContador
    /\ buffer_registros' = LimpiarDatos(buffer_registros)
    /\ UNCHANGED <<ejecutando, pausado, captura, hilo_video, pc, gui, detenidos,
                   frames_en_pausa>>

HiloDeVideo ==
    \E h \in Hilos :
        \/ RevisarEjecutando(h)
        \/ RevisarPausa(h)
        \/ RevisarCaptura(h)
        \/ LeerFrame(h)
        \/ ProcesarFrame(h)

NextHilos ==
    HiloDeVideo \/ OnIniciar \/ OnPausar \/ OnCerrar \/ FinDeJoin \/ OnReiniciar

SpecHilos == Init /\ [][NextHilos]_vars

(***************************************************************************)
(* Inputs of SpecEntrada: procesar_detecciones called with lists in which  *)
(* a detection lacks one of the keys the detector writes, alone or after a *)
(* complete detection, next to complete lists and the empty list           *)
(***************************************************************************)
MaxFramesEntrada == 3

\* the dict det without the key campo
Sin(det, campo) == [c \in DOMAIN det \ {campo} |-> det[c]]

CamposRequeridos == {"centro", "categoria", "bbox"}

Incompletas == {Sin(Det(100, 0, "adulto"), c) : c \in CamposRequeridos}

EntradasEntrada ==
    {<<>>, <<Det(100, 0, "adulto")>>, <<Det(190, 0, "adulto")>>}
        \cup {<<d>> : d \in Incompletas}
        \cup {<<Det(190, 0, "adulto"), d>> : d \in Incompletas}

SalidasEntrada == {<<TrackExterno(1, TRUE, x, "adulto")>> : x \in {100, 190}}

FrameEntrada ==
    /\ n_frames < MaxFramesEntrada
    /\ \E detecciones \in EntradasEntrada :
           IF usar_deepsort
           THEN \E salida \in SalidasEntrada :
                    ProcesarDetecciones(detecciones, "frame", salida)
           ELSE ProcesarDetecciones(detecciones, "frame", <<>>)
    /\ UNCHANGED aplicacion

NextEntrada == FrameEntrada \/ ReiniciarContadores

SpecEntrada == Init /\ [][NextEntrada]_vars

(***************************************************************************)
(* SpecInstantanea: a client takes the mapping of obtener_contadores and   *)
(* keeps it while one object goes back and forth over the line at 150,     *)
(* the counters are reset, and the client stores a value in a cell of the  *)
(* mapping                                                                 *)
(***************************************************************************)
MaxFramesInstantanea == 3

\* the value the client stores: no count of the run reaches it by counting
ValorEscrito == 7

ObtenerContadores ==
    /\ instantanea' = [tomada |-> TRUE, compartida |-> TRUE, escrita |-> FALSE,
                       al_tomar |-> contadores, propia |-> contadores]
    /\ ultima_op' = "obtener_contadores"
    /\ UNCHANGED <<ancho_frame, linea_posicion_relativa, linea_x, usar_deepsort,
                   contadores, tracks, siguiente_track_id, entrada, resultado,
                   llamadas, excepcion, n_frames, aplicacion>>

\* m[categoria][direccion] = ValorEscrito on the returned mapping m: the cell
\* belongs to an inner dict, the counter's own one while it is shared
EscribirPorInstantanea ==
    /\ instantanea.tomada
    /\ \E categoria \in {"adulto"}, direccion \in {"izq_der", "der_izq"} :
           /\ LeidoPor(instantanea, contadores)[categoria][direccion] # ValorEscrito
           /\ IF instantanea.compartida
              THEN /\ contadores' = [contadores EXCEPT ![categoria][direccion] = ValorEscrito]
                   /\ instantanea' = [instantanea EXCEPT !.escrita = TRUE]
              ELSE /\ contadores' = contadores
                   /\ instantanea' = [instantanea EXCEPT
                                          !.escrita = TRUE,
                                          !.propia[categoria][direccion] = ValorEscrito]
    /\ ultima_op' = "escribir_instantanea"
    /\ UNCHANGED <<ancho_frame, linea_posicion_relativa, linea_x, usar_deepsort,
                   tracks, siguiente_track_id, entrada, resultado,
                   llamadas, excepcion, n_frames, aplicacion>>

EntradasInstantanea == {<<Det(x, 0, "adulto")>> : x \in {100, 190}}

SalidasInstantanea == {<<TrackExterno(1, TRUE, x, "adulto")>> : x \in {100, 190}}

FrameInstantanea ==
    /\ n_frames < MaxFramesInstantanea
    /\ IF usar_deepsort
       THEN \E salida \in SalidasInstantanea :
                ProcesarDetecciones(<<Det(100, 0, "adulto")>>, "frame", salida)
       ELSE \E detecciones \in EntradasInstantanea :
                ProcesarDetecciones(detecciones, "frame", <<>>)
    /\ UNCHANGED aplicacion

NextInstantanea ==
    FrameInstantanea \/ ObtenerContadores \/ EscribirPorInstantanea \/ ReiniciarContadores

SpecInstantanea == Init /\ [][NextInstantanea]_vars

(***************************************************************************)
(* Inputs of SpecCercano: procesar_detecciones called without a frame, so  *)
(* that the built-in tracker runs whatever usar_deepsort is, with objects  *)
(* of one category at 100, 145 and 190 on one row: 100 and 190 are 90 px   *)
(* apart, 145 is 45 px from both                                           *)
(***************************************************************************)
MaxFramesCercano == 3

EnFila == {Det(x, 0, "adulto") : x \in {100, 145, 190}}

EntradasCercano ==
    {<<d>> : d \in EnFila}
        \cup ({<<d, e>> : d \in EnFila, e \in EnFila} \ {<<d, d>> : d \in EnFila})

FrameCercano ==
    /\ n_frames < MaxFramesCercano
    /\ \E detecciones \in EntradasCercano :
           ProcesarDetecciones(detecciones, None, <<>>)
    /\ UNCHANGED aplicacion

NextCercano == FrameCercano \/ ReiniciarContadores

SpecCercano == Init /\ [][NextCercano]_vars

(***************************************************************************)
(* Inputs of SpecHistorial: one object seen in every frame, long enough    *)
(* for its history to pass 50 samples.  The sample of frame n is           *)
(* (100, n) or (140, n): its row tells when it was taken, and consecutive  *)
(* samples are less than 100 px apart, so the object keeps its track.      *)
(***************************************************************************)
MaxFramesHistorial == 53

Muestra(n) == <<IF n % 2 = 0 THEN 100 ELSE 140, n>>

\* the external tracker's track 1 with its box centred on the sample
TrackEnMuestra(n) ==
    [track_id |-> 1, confirmado |-> TRUE,
     ltrb |-> <<Muestra(n)[1] - 20, n - 20, Muestra(n)[1] + 20, n + 20>>,
     clase |-> "adulto"]

FrameHistorial ==
    /\ n_frames < MaxFramesHistorial
    /\ ProcesarDetecciones(<<Det(Muestra(n_frames)[1], n_frames, "adulto")>>, "frame",
                           <<TrackEnMuestra(n_frames)>>)
    /\ UNCHANGED aplicacion

NextHistorial == FrameHistorial \/ ReiniciarContadores

SpecHistorial == Init /\ [][NextHistorial]_vars

(***************************************************************************)
(* SpecRegistro: the frames of SpecOrden processed one after another by    *)
(* _procesar_frame, every call of callback_cruce running                   *)
(* _on_cruce_detectado to its end, and _on_reiniciar between frames; the   *)
(* external tracker may also report track 1 without a class                *)
(***************************************************************************)
MaxFramesRegistro == 3

SalidasRegistro ==
    SalidasOrden \cup {<<TrackExterno(1, TRUE, x, None)>> : x \in {100, 190}}

FrameRegistro ==
    /\ n_frames < MaxFramesRegistro
    /\ IF usar_deepsort
       THEN \E salida \in SalidasRegistro :
                ProcesarDetecciones(<<Det(100, 0, "adulto")>>, "frame", salida)
       ELSE \E detecciones \in EntradasOrden :
                ProcesarDetecciones(detecciones, "frame", <<>>)
    /\ buffer_registros' = CrucesDetectados(buffer_registros, llamadas', 1)
    /\ UNCHANGED <<ejecutando, pausado, captura, hilo_video, pc, gui, detenidos,
                   frames_en_pausa>>

NextRegistro == FrameRegistro \/ OnReiniciar

SpecRegistro == Init /\ [][NextRegistro]_vars

(***************************************************************************)
(* Vocabulary of the properties                                            *)
(***************************************************************************)
Historial(t) == t.historial_posiciones

X(t, m) == t.historial_posiciones[m][1]

UltimoX(t) == X(t, Len(t.historial_posiciones))

\* every sample of the track is still in its history
HistorialCompleto(t) == t.frames_vistos = Len(t.historial_posiciones)

NoDecreciente(t) ==
    \A m \in 1..(Len(Historial(t)) - 1) : X(t, m) <= X(t, m + 1)

\* the samples (numbered by frames_vistos) at which a crossing of the track
\* was registered and counted in the given direction
Contados(t, direccion) ==
    {t.registros[n][1] : n \in {k \in 1..Len(t.registros) :
                                   t.registros[k][2] = direccion /\ t.registros[k][3]}}

TodosContados(t) == Contados(t, "izq_der") \cup Contados(t, "der_izq")

Maximo(S) == CHOOSE n \in S : \A k \in S : k <= n

CondicionDeCruce(anterior, actual, linea) ==
    \/ (anterior < linea /\ linea <= actual)
    \/ (anterior > linea /\ linea >= actual)

EnMargen(x, linea) == x - linea <= MargenCruce /\ linea - x <= MargenCruce

FrameProcesado == ultima_op' = "procesar_detecciones"

(***************************************************************************)
(* C1: a track of the built-in tracker whose samples never move left,      *)
(* start strictly left of the line and end right of it has exactly one     *)
(* counted left-to-right crossing and no right-to-left one, however many   *)
(* samples lie on or near the line; when it is the only track created      *)
(* since construction or the last reset, the cells of its category read    *)
(* izq_der = 1 and der_izq = 0.                                            *)
(***************************************************************************)
PasoMonotono(t) ==
    /\ HistorialCompleto(t)
    /\ NoDecreciente(t)
    /\ X(t, 1) < linea_x
    /\ UltimoX(t) > linea_x

C1_UnCrucePorPaso ==
    ~usar_deepsort =>
        \A i \in 1..Len(tracks) :
            PasoMonotono(tracks[i]) =>
                /\ Cardinality(Contados(tracks[i], "izq_der")) = 1
                /\ Len(tracks[i].registros) = 1
                /\ siguiente_track_id = 2 =>
                       /\ contadores[tracks[i].categoria].izq_der = 1
                       /\ contadores[tracks[i].categoria].der_izq = 0

\* a monotone pass of four samples or more with a sample exactly on the line
C1_Testigo ==
    /\ ~usar_deepsort
    /\ \E i \in 1..Len(tracks) :
           /\ PasoMonotono(tracks[i])
           /\ Len(Historial(tracks[i])) >= 4
           /\ \E m \in 1..Len(Historial(tracks[i])) : X(tracks[i], m) = linea_x
           /\ contadores[tracks[i].categoria].izq_der = 1

(***************************************************************************)
(* C2: once a crossing of a track has been counted, a frame in which the   *)
(* track gets a sample, all of its samples after the last counted crossing *)
(* (the new one included) being within margen_cruce of the line, registers *)
(* nothing for the track: no new registration, no callback with its id,    *)
(* and no counter changes when it is the only detection of the frame.      *)
(***************************************************************************)
UltimoContado(t) == Maximo(TodosContados(t))

\* the samples after the last counted crossing are all within the margin
SoloEnMargenDesdeCruce(t) ==
    /\ HistorialCompleto(t)
    /\ TodosContados(t) # {}
    /\ \A m \in (UltimoContado(t) + 1)..Len(Historial(t)) : EnMargen(X(t, m), linea_x)

C2_SinRecuentoEnMargen ==
    [][FrameProcesado =>
          \A i \in 1..Len(tracks) :
              LET t == tracks[i]
                  j == IndiceTrack(tracks', t.track_id)
              IN  (/\ j # 0
                   /\ TodosContados(t) # {}
                   /\ tracks'[j].frames_vistos = t.frames_vistos + 1
                   /\ SoloEnMargenDesdeCruce([tracks'[j] EXCEPT !.registros = t.registros]))
                  => /\ tracks'[j].registros = t.registros
                     /\ \A n \in 1..Len(llamadas') : llamadas'[n][3] # t.track_id
                     /\ Len(resultado') = 1 => contadores' = contadores]_vars

\* a counted crossing followed by two samples within the margin that change side
C2_Testigo ==
    \E i \in 1..Len(tracks) :
        LET t == tracks[i]
        IN  /\ SoloEnMargenDesdeCruce(t)
            /\ Len(Historial(t)) >= UltimoContado(t) + 2
            /\ \E m \in (UltimoContado(t) + 1)..Len(Historial(t)) :
                   CondicionDeCruce(X(t, m - 1), X(t, m), linea_x)
            /\ Len(t.registros) = 1

(***************************************************************************)
(* C3: when a track has a counted crossing, then a sample more than        *)
(* margen_cruce away from the line, and a later step of the track          *)
(* satisfies a crossing condition, that step is counted.                   *)
(***************************************************************************)
ContadosAntes(t, m) == {n \in TodosContados(t) : n < m}

C3_RecuentoTrasAlejarse ==
    \A i \in 1..Len(tracks) :
        LET t == tracks[i]
        IN  HistorialCompleto(t) =>
                \A m \in 2..Len(Historial(t)) :
                    (/\ CondicionDeCruce(X(t, m - 1), X(t, m), linea_x)
                     /\ ContadosAntes(t, m) # {}
                     /\ \E j \in (Maximo(ContadosAntes(t, m)) + 1)..(m - 1) :
                            ~EnMargen(X(t, j), linea_x))
                    => m \in TodosContados(t)

(***************************************************************************)
(* C4: a track with a registered crossing that is not among the tracks of  *)
(* a frame's result is no longer in the table when procesar_detecciones    *)
(* returns, whatever the frame (no detection at all, external tracker).    *)
(***************************************************************************)
IdsResultado(res) == {res[k].track_id : k \in 1..Len(res)}

C4_CruzadoAusenteEliminado ==
    [][FrameProcesado =>
          \A i \in 1..Len(tracks) :
              (tracks[i].cruzado /\ tracks[i].track_id \notin IdsResultado(resultado'))
              => tracks[i].track_id \notin Ids(tracks')]_vars

(***************************************************************************)
(* C5: right after reiniciar_contadores every cell is 0, the totals are    *)
(* 0/0/0, the track table is empty and siguiente_track_id is 1; a second   *)
(* reiniciar_contadores run from there changes nothing.                    *)
(***************************************************************************)
C5_ReinicioIdempotente ==
    ultima_op = "reiniciar_contadores" =>
        /\ DOMAIN contadores = Categorias
        /\ \A c \in DOMAIN contadores : \A d \in Direcciones : contadores[c][d] = 0
        /\ ObtenerTotalCruces(contadores) = [izq_der |-> 0, der_izq |-> 0, total |-> 0]
        /\ tracks = <<>>
        /\ siguiente_track_id = 1
        /\ ~ENABLED <<ReiniciarContadores>>_vars

\* a reset taken right after a two-detection frame that counted a crossing
C5_Testigo ==
    /\ ultima_op = "reiniciar_contadores"
    /\ Len(resultado) = 2
    /\ llamadas # <<>>
    /\ tracks = <<>>

(***************************************************************************)
(* C6: in a frame of the built-in tracker the k-th detection gets the id   *)
(* of a track of the table exactly when some track of its category, not    *)
(* given to an earlier detection of the frame, has its last centroid at    *)
(* less than 100 px, and then the id is that of such a track; otherwise    *)
(* (distance exactly 100, other category at the same place) a new track    *)
(* with a fresh id is created for it.                                      *)
(***************************************************************************)
UsadosAntes(res, k) == {res[n].track_id : n \in 1..(k - 1)}

Admisibles(tr, det, usados) ==
    {tr[i].track_id : i \in {n \in 1..Len(tr) :
        /\ tr[n].track_id \notin usados
        /\ tr[n].categoria = det.categoria
        /\ Distancia2(det.centro[1], det.centro[2], UltimoX(tr[n]),
                      Historial(tr[n])[Len(Historial(tr[n]))][2])
               < UmbralDistancia * UmbralDistancia}}

TrackNuevo(tr, det) ==
    LET j == IndiceTrack(tr, det.track_id)
    IN  /\ j # 0
        /\ tr[j].categoria = det.categoria
        /\ tr[j].historial_posiciones = <<det.centro>>
        /\ tr[j].frames_vistos = 1

C6_AsignacionConUmbral ==
    [][(FrameProcesado /\ ~usar_deepsort) =>
          \A k \in 1..Len(resultado') :
              LET det == resultado'[k]
                  admisibles == Admisibles(tracks, det, UsadosAntes(resultado', k))
              IN  IF admisibles # {}
                  THEN det.track_id \in admisibles
                  ELSE /\ det.track_id \notin Ids(tracks)
                       /\ det.track_id \notin UsadosAntes(resultado', k)
                       /\ TrackNuevo(tracks', det)]_vars

\* the second frame's only detection, exactly 100 px from track 1 of its
\* category, became track 2
C6_Testigo ==
    /\ ~usar_deepsort
    /\ n_frames = 2
    /\ resultado = <<[centro |-> <<20, 60>>, categoria |-> "adulto", track_id |-> 2]>>
    /\ \E i \in 1..Len(tracks) :
           /\ tracks[i].track_id = 1
           /\ tracks[i].categoria = "adulto"
           /\ tracks[i].historial_posiciones = << <<100, 0>> >>

(***************************************************************************)
(* C7: every execution of _registrar_cruce for a track of the table        *)
(* increments exactly one counter cell by 1: over a frame each cell grows  *)
(* by the number of registrations of its category and direction, and the   *)
(* total grows by the number of registrations.                             *)
(***************************************************************************)
RegistrosPrevios(id) ==
    LET i == IndiceTrack(tracks, id)
    IN  IF i = 0 THEN 0 ELSE Len(tracks[i].registros)

\* <<j, n>>: the n-th registration of tracks'[j] was made in this step
NuevosRegistros ==
    UNION {{<<j, n>> : n \in (RegistrosPrevios(tracks'[j].track_id) + 1)
                              ..Len(tracks'[j].registros)} : j \in 1..Len(tracks')}

NuevosDe(categoria, direccion) ==
    {r \in NuevosRegistros : /\ tracks'[r[1]].categoria = categoria
                             /\ tracks'[r[1]].registros[r[2]][2] = direccion}

Total(cont) == ObtenerTotalCruces(cont).total

C7_RegistroIncrementaUnaCelda ==
    [][FrameProcesado =>
          /\ \A c \in Categorias : \A d \in Direcciones :
                 contadores'[c][d] = contadores[c][d] + Cardinality(NuevosDe(c, d))
          /\ Total(contadores') = Total(contadores) + Cardinality(NuevosRegistros)]_vars

(***************************************************************************)
(* C8: a step of an armed track of a configured category from left of the  *)
(* line to on or right of it registers a counted izq_der crossing and      *)
(* increments only that cell; a step from right of the line to on or left  *)
(* of it does the same for der_izq; the track first seen at x = 100 and    *)
(* then at x = 190, the line at 150, leaves izq_der = 1 for its category.  *)
(***************************************************************************)
C8_DireccionCorrecta ==
    [][FrameProcesado =>
          /\ \A i \in 1..Len(tracks) :
                 LET t == tracks[i]
                     j == IndiceTrack(tracks', t.track_id)
                     anterior == UltimoX(t)
                     actual == UltimoX(tracks'[j])
                     c == t.categoria
                 IN  (/\ j # 0
                      /\ tracks'[j].frames_vistos = t.frames_vistos + 1
                      /\ t.puede_cruzar
                      /\ c \in DOMAIN contadores)
                     => /\ (anterior < linea_x /\ actual >= linea_x) =>
                              /\ tracks'[j].registros =
                                     Append(t.registros, <<t.frames_vistos + 1, "izq_der", TRUE>>)
                              /\ Len(resultado') = 1 =>
                                     contadores' = [contadores EXCEPT ![c].izq_der = @ + 1]
                        /\ (anterior > linea_x /\ actual <= linea_x) =>
                              /\ tracks'[j].registros =
                                     Append(t.registros, <<t.frames_vistos + 1, "der_izq", TRUE>>)
                              /\ Len(resultado') = 1 =>
                                     contadores' = [contadores EXCEPT ![c].der_izq = @ + 1]
          /\ (/\ ~usar_deepsort
              /\ linea_x = 150
              /\ siguiente_track_id' = 2
              /\ Len(tracks') = 1
              /\ tracks'[1].historial_posiciones = <<<<100, 0>>, <<190, 0>>>>)
             => /\ contadores'[tracks'[1].categoria].izq_der = 1
                /\ contadores'[tracks'[1].categoria].der_izq = 0]_vars

\* the end-to-end scenario: track 1 seen at 100, then at 190
C8_Testigo ==
    /\ ~usar_deepsort
    /\ linea_x = 150
    /\ Len(tracks) = 1
    /\ tracks[1].track_id = 1
    /\ tracks[1].historial_posiciones = <<<<100, 0>>, <<190, 0>>>>
    /\ contadores[tracks[1].categoria] = [izq_der |-> 1, der_izq |-> 0]

(***************************************************************************)
(* C9: a frame in which no crossing of a track of category B is            *)
(* registered leaves both cells of B unchanged, whatever crossings of      *)
(* other categories it registers.                                          *)
(***************************************************************************)
C9_CategoriasAisladas ==
    [][FrameProcesado =>
          \A b \in Categorias :
              (\A r \in NuevosRegistros : tracks'[r[1]].categoria # b)
              => contadores'[b] = contadores[b]]_vars

\* an 'adulto' crossing was counted while the 'bicicleta' cells were not zero
C9_Testigo ==
    /\ llamadas # <<>>
    /\ \A n \in 1..Len(llamadas) : llamadas[n][1] = "adulto"
    /\ contadores["bicicleta"].izq_der + contadores["bicicleta"].der_izq > 0
    /\ contadores["adulto"].izq_der + contadores["adulto"].der_izq > 0

(***************************************************************************)
(* C10: all cells are 0 after construction, and a step in which some cell  *)
(* decreases is a reiniciar_contadores step, which leaves every cell 0 and *)
(* the track table empty.                                                  *)
(***************************************************************************)
AlgunaCeldaDecrece ==
    \E c \in Categorias : \E d \in Direcciones : contadores'[c][d] < contadores[c][d]

C10_SoloElReinicioDecrementa ==
    /\ \A c \in Categorias : \A d \in Direcciones : contadores[c][d] = 0
    /\ [][AlgunaCeldaDecrece =>
             /\ ultima_op' = "reiniciar_contadores"
             /\ contadores' = InicializarContadores
             /\ tracks' = <<>>]_vars

\* a reset that took counted crossings and live tracks away
C10_Testigo ==
    /\ ultima_op = "reiniciar_contadores"
    /\ n_frames >= 2
    /\ llamadas # <<>>
    /\ resultado # <<>>
    /\ Total(contadores) = 0

(***************************************************************************)
(* C11: in the built-in tracker every key of the track table is below      *)
(* siguiente_track_id and no two tracks share an id; a frame never lowers  *)
(* siguiente_track_id, and a detection that starts a track gets an id that *)
(* is at least the siguiente_track_id the frame began with (so above every *)
(* id given since the last reset, evicted holders included) and that no    *)
(* earlier detection of the frame has; a detection that keeps an id of the *)
(* table continues that track.                                             *)
(***************************************************************************)
IdsDistintos(tr) ==
    \A i \in 1..Len(tr) : \A j \in 1..Len(tr) : tr[i].track_id = tr[j].track_id => i = j

ClavesBajoSiguiente ==
    /\ IdsDistintos(tracks)
    /\ \A i \in 1..Len(tracks) : tracks[i].track_id \in 1..(siguiente_track_id - 1)

C11_IdsCrecientesSinReuso ==
    /\ [](~usar_deepsort => ClavesBajoSiguiente)
    /\ [][(FrameProcesado /\ ~usar_deepsort) =>
             /\ siguiente_track_id' >= siguiente_track_id
             /\ \A k \in 1..Len(resultado') :
                    LET id == resultado'[k].track_id
                        i == IndiceTrack(tracks, id)
                        j == IndiceTrack(tracks', id)
                    IN  /\ j # 0
                        /\ id \notin UsadosAntes(resultado', k)
                        /\ IF i # 0
                           THEN tracks'[j].frames_vistos = tracks[i].frames_vistos + 1
                           ELSE /\ id >= siguiente_track_id
                                /\ id < siguiente_track_id'
                                /\ tracks'[j].frames_vistos = 1]_vars

\* track 1 crossed and was evicted; the track created afterwards is track 2
C11_Testigo ==
    /\ ~usar_deepsort
    /\ Ids(tracks) = {2}
    /\ siguiente_track_id = 3
    /\ \E i \in 1..Len(tracks) : tracks[i].frames_vistos = 1
    /\ Total(contadores) = 1

(***************************************************************************)
(* C12: in every state of a counter built with a relative position between *)
(* 0.0 and 1.0, whatever calls of actualizar_posicion_linea and            *)
(* actualizar_dimensiones follow, the relative position of the line is     *)
(* between 0.1 and 0.9 and linea_x is neither 0 nor the frame's width.     *)
(***************************************************************************)
C12_LineaAcotada ==
    /\ linea_posicion_relativa >= 1
    /\ linea_posicion_relativa <= 9
    /\ linea_x > 0
    /\ linea_x < ancho_frame

(***************************************************************************)
(* C13: in a frame callback_cruce is called once per counter increment,    *)
(* with the category of the track, the direction of the crossing just      *)
(* registered for it and its id, and the cell it reads already includes    *)
(* that crossing; the calls follow the order in which the frame's tracks   *)
(* are processed, which is the order of the returned list: with the        *)
(* built-in tracker that list is the input list, detection by detection.   *)
(***************************************************************************)
Posicion(res, id) == CHOOSE k \in 1..Len(res) : res[k].track_id = id

\* calls 1..n of the frame made for the cell [categoria][direccion]
LlamadasHasta(n, categoria, direccion) ==
    {k \in 1..n : llamadas'[k][1] = categoria /\ llamadas'[k][2] = direccion}

C13_LlamadaPorIncremento ==
    [][FrameProcesado =>
          /\ Len(llamadas') = Total(contadores') - Total(contadores)
          /\ \A n \in 1..Len(llamadas') :
                 LET categoria == llamadas'[n][1]
                     direccion == llamadas'[n][2]
                     id == llamadas'[n][3]
                     j == IndiceTrack(tracks', id)
                 IN  /\ j # 0
                     /\ tracks'[j].categoria = categoria
                     /\ tracks'[j].registros # <<>>
                     /\ Len(tracks'[j].registros) = RegistrosPrevios(id) + 1
                     /\ tracks'[j].registros[Len(tracks'[j].registros)]
                            = <<tracks'[j].frames_vistos, direccion, TRUE>>
                     /\ llamadas'[n][4] = contadores[categoria][direccion]
                            + Cardinality(LlamadasHasta(n, categoria, direccion))
                     /\ id \in IdsResultado(resultado')
                     /\ \A k \in 1..(n - 1) :
                            Posicion(resultado', llamadas'[k][3]) < Posicion(resultado', id)
          /\ ~usar_deepsort =>
                 /\ Len(resultado') = Len(entrada')
                 /\ \A k \in 1..Len(entrada') :
                        /\ resultado'[k].centro = entrada'[k].centro
                        /\ resultado'[k].categoria = entrada'[k].categoria]_vars

\* built-in tracker: the 'bicicleta' (track 2) was listed before the 'adulto'
\* (track 1) in the frame where both crossed, and was called back first
C13_Testigo ==
    /\ ~usar_deepsort
    /\ Len(llamadas) = 2
    /\ llamadas[1][1] = "bicicleta" /\ llamadas[1][3] = 2
    /\ llamadas[2][1] = "adulto" /\ llamadas[2][3] = 1
    /\ entrada[1].categoria = "bicicleta"

\* C13 as stated: two calls made in a frame follow the order in which
\* detections of their categories appear in the input list
C13_OrdenDeLaListaDeEntrada ==
    [][FrameProcesado =>
          \A n \in 1..Len(llamadas') : \A k \in 1..Len(llamadas') :
              n < k => \E a \in 1..Len(entrada') : \E b \in 1..Len(entrada') :
                           /\ a < b
                           /\ entrada'[a].categoria = llamadas'[n][1]
                           /\ entrada'[b].categoria = llamadas'[k][1]]_vars

(***************************************************************************)
(* C14: while a thread running _bucle_video is alive, tracks, contadores   *)
(* and siguiente_track_id change only in a step of such a thread that      *)
(* processes a frame; no handler of the presentation thread changes them.  *)
(***************************************************************************)
CambiaElConteo ==
    <<tracks, contadores, siguiente_track_id>>' # <<tracks, contadores, siguiente_track_id>>

PasoDeProcesarFrame == \E h \in Hilos : pc[h] = "procesar" /\ pc'[h] # "procesar"

C14_SoloEscribeElHiloDeVideo ==
    [][(Vivos # {} /\ CambiaElConteo) => PasoDeProcesarFrame]_vars

(***************************************************************************)
(* C15: at most one thread running _bucle_video is alive at any time.      *)
(***************************************************************************)
C15_UnSoloHiloDeVideo == Cardinality(Vivos) <= 1

(***************************************************************************)
(* C16: a thread that finds pausado true goes back to the head of the loop *)
(* without capturing or processing anything and with tracks, contadores,   *)
(* siguiente_track_id untouched; a thread goes on to capture only when it  *)
(* finds pausado false; and since pausado was last set each thread has     *)
(* processed one frame at most, the one it had in flight.                  *)
(***************************************************************************)
C16_PausaCooperativa ==
    /\ [](\A h \in Hilos : frames_en_pausa[h] <= 1)
    /\ [][\A h \in Hilos :
             (pc[h] = "if_pausado" /\ pc'[h] # "if_pausado") =>
                 /\ pausado => pc'[h] = "while" /\ UNCHANGED conteo
                 /\ pc'[h] = "if_captura" => ~pausado]_vars

\* paused: a thread has finished the frame it had in flight, which left a
\* track in the table, and has come round to the test of pausado
C16_Testigo ==
    /\ pausado
    /\ \E h \in Hilos : frames_en_pausa[h] = 1 /\ pc[h] = "if_pausado"
    /\ tracks # <<>>

(***************************************************************************)
(* C17: a thread that was alive when _on_cerrar cleared ejecutando starts  *)
(* no further iteration of the loop: from the test of ejecutando it only   *)
(* leaves _bucle_video.                                                    *)
(***************************************************************************)
C17_DetenidoNoEmpiezaOtroFrame ==
    [][\A h \in detenidos : pc[h] = "while" => pc'[h] \in {"while", "fin"}]_vars

(***************************************************************************)
(* C18: a failure of the detector or of the external tracker while a frame *)
(* is processed leaves tracks, contadores and siguiente_track_id as they   *)
(* were, and the thread goes on to the next iteration of the loop.         *)
(***************************************************************************)
C18_FalloNoTerminaElHilo ==
    [][\A h \in Hilos :
          (pc[h] = "procesar" /\ pc'[h] # "procesar") =>
              /\ pc'[h] = "while"
              /\ excepcion' = None]_vars


(***************************************************************************)
(* C19: procesar_detecciones given malformed input (the empty list, or a   *)
(* list with a detection that lacks centro, categoria or bbox) raises no   *)
(* exception and treats the frame as having nothing to process: tracks,    *)
(* counters and id sequence unchanged, nothing returned, no callback       *)
(***************************************************************************)
Malformada(detecciones) ==
    \/ detecciones = <<>>
    \/ \E k \in 1..Len(detecciones) : Falta(detecciones[k], CamposRequeridos)

C19_EntradaMalformadaNoHaceNada ==
    [][FrameProcesado /\ Malformada(entrada')
          => /\ excepcion' = None
             /\ resultado' = <<>>
             /\ llamadas' = <<>>
             /\ UNCHANGED <<tracks, contadores, siguiente_track_id>>]_vars


(***************************************************************************)
(* C20: the mapping returned by obtener_contadores is a read-only          *)
(* snapshot: while its holder has not written to it, the counts read       *)
(* through it are those of the time of the call, whatever crossings are    *)
(* registered afterwards; and a write made through it does not change the  *)
(* counter's own counts                                                    *)
(***************************************************************************)
C20_InstantaneaSoloLectura ==
    [][/\ (instantanea'.tomada /\ ~instantanea'.escrita)
              => LeidoPor(instantanea', contadores') = instantanea'.al_tomar
       /\ ultima_op' = "escribir_instantanea" => contadores' = contadores]_vars

(***************************************************************************)
(* C21: in external-tracker mode a confirmed track for which the tracker   *)
(* supplies no class is recorded with the default category 'adulto': no    *)
(* track of the table carries the missing class as its category            *)
(***************************************************************************)
C21_SinClaseEsAdulto ==
    \A i \in 1..Len(tracks) : tracks[i].categoria # None

(***************************************************************************)
(* C22: a track that has never had a registered crossing is not removed    *)
(* from the table by frame processing, whether or not the frame matches    *)
(* it: it leaves the table only in reiniciar_contadores.  So a detection   *)
(* of its category less than 100 px from its last position, the first of   *)
(* its frame, is given the id of a track of the table and not a new one.   *)
(***************************************************************************)
Candidatos(tr, det) ==
    {i \in 1..Len(tr) :
        /\ tr[i].categoria = det.categoria
        /\ LET h == tr[i].historial_posiciones
           IN  Distancia2(det.centro[1], det.centro[2], h[Len(h)][1], h[Len(h)][2])
                   < UmbralDistancia * UmbralDistancia}

C23_CategoriaMasReciente ==
    [][ultima_op' = "procesar_detecciones"
          => \A k \in 1..Len(llamadas'), j \in 1..Len(resultado') :
                 (/\ resultado'[j].track_id = llamadas'[k][3]
                  /\ resultado'[j].categoria \in Categorias)
                     => llamadas'[k][1] = resultado'[j].categoria]_vars

(***************************************************************************)
(* C24: a track is created with puede_cruzar true; over a frame,           *)
(* puede_cruzar of a track goes from true to false only if the frame       *)
(* registers a crossing for the track, and from false to true only if the  *)
(* frame gives the track a sample for which neither crossing test holds    *)
(* and that is more than margen_cruce from the line                        *)
(***************************************************************************)
Anterior(t) == t.historial_posiciones[Len(t.historial_posiciones) - 1][1]

Actual(t) == t.historial_posiciones[Len(t.historial_posiciones)][1]

C24_ArmadoYDesarmado ==
    [][ultima_op' = "procesar_detecciones"
          => \A j \in 1..Len(tracks') :
                 LET t == tracks'[j]
                     i == IndiceTrack(tracks, t.track_id)
                 IN  /\ i = 0 => t.puede_cruzar
                     /\ (i # 0 /\ tracks[i].puede_cruzar /\ ~t.puede_cruzar)
                            => Len(t.registros) = Len(tracks[i].registros) + 1
                     /\ (i # 0 /\ ~tracks[i].puede_cruzar /\ t.puede_cruzar)
                            => /\ t.frames_vistos = tracks[i].frames_vistos + 1
                               /\ ~(Anterior(t) < linea_x /\ Actual(t) >= linea_x)
                               /\ ~(Anterior(t) > linea_x /\ Actual(t) <= linea_x)
                               /\ Abs(Actual(t) - linea_x) > MargenCruce]_vars

\* a track that was disarmed by its crossing and has been armed again
C24_Testigo ==
    \E i \in 1..Len(tracks) :
        /\ tracks[i].registros # <<>>
        /\ tracks[i].puede_cruzar
        /\ ultima_op = "procesar_detecciones"

(***************************************************************************)
(* C25: for an armed track, a sample exactly on the line that follows a    *)
(* sample left of it registers a left-to-right crossing, and one that      *)
(* follows a sample right of it registers a right-to-left crossing; no     *)
(* pair of samples satisfies both direction tests; and the sample that     *)
(* follows one exactly on the line registers nothing, so a pass through    *)
(* the line with a sample on it is counted once, on arrival, in the        *)
(* direction of the pass                                                   *)
(***************************************************************************)
UltimoRegistro(t) == t.registros[Len(t.registros)]

C25_SobreLaLinea ==
    [][ultima_op' = "procesar_detecciones"
          => \A j \in 1..Len(tracks') :
                 LET t == tracks'[j]
                     i == IndiceTrack(tracks, t.track_id)
                     nuevos == Len(t.registros) - Len(tracks[i].registros)
                 IN  (i # 0 /\ t.frames_vistos = tracks[i].frames_vistos + 1)
                         => /\ ~(/\ Anterior(t) < linea_x /\ Actual(t) >= linea_x
                                 /\ Anterior(t) > linea_x /\ Actual(t) <= linea_x)
                            /\ (tracks[i].puede_cruzar /\ Anterior(t) < linea_x
                                    /\ Actual(t) = linea_x)
                                   => (nuevos = 1 /\ UltimoRegistro(t)[2] = "izq_der")
                            /\ (tracks[i].puede_cruzar /\ Anterior(t) > linea_x
                                    /\ Actual(t) = linea_x)
                                   => (nuevos = 1 /\ UltimoRegistro(t)[2] = "der_izq")
                            /\ Anterior(t) = linea_x => nuevos = 0]_vars

\* a track was counted left to right on arriving exactly on the line and
\* has now left it to the right without being counted again
C25_Testigo ==
    \E i \in 1..Len(tracks) :
        LET t == tracks[i]
        IN  /\ Len(t.historial_posiciones) >= 3
            /\ t.historial_posiciones[Len(t.historial_posiciones) - 2][1] < linea_x
            /\ Anterior(t) = linea_x
            /\ Actual(t) > linea_x
            /\ Len(t.registros) = 1
            /\ UltimoRegistro(t) = <<t.frames_vistos - 1, "izq_der", TRUE>>

(***************************************************************************)
(* C26: within one call of procesar_detecciones no track id is given to    *)
(* two detections of the frame, and per track the call registers at most   *)
(* one crossing, makes at most one increment and at most one callback      *)
(***************************************************************************)
C26_UnCrucePorTrackYFrame ==
    [][ultima_op' = "procesar_detecciones"
          => /\ \A j, k \in 1..Len(resultado') :
                    j # k => resultado'[j].track_id # resultado'[k].track_id
             /\ \A j \in 1..Len(tracks') :
                    Len(tracks'[j].registros) <= RegistrosPrevios(tracks'[j].track_id) + 1
             /\ \A j, k \in 1..Len(llamadas') :
                    j # k => llamadas'[j][3] # llamadas'[k][3]
             /\ Total(contadores') - Total(contadores) = Len(llamadas')]_vars

\* built-in tracker, two detections of one category in the frame: the first
\* took the track and registered its crossing, the second took another id
C26_Testigo ==
    /\ ~usar_deepsort
    /\ ultima_op = "procesar_detecciones"
    /\ Len(resultado) = 2
    /\ resultado[1].categoria = resultado[2].categoria
    /\ resultado[1].track_id # resultado[2].track_id
    /\ Len(llamadas) = 1
    /\ llamadas[1][3] = resultado[1].track_id

(***************************************************************************)
(* C27: the built-in matcher gives a detection the track, among those of   *)
(* its category not yet claimed in the frame and less than 100 px away,    *)
(* whose last centroid is nearest to it, the earliest created on equal     *)
(* distances, and a new id when there is none; detections are resolved in  *)
(* list order, a claimed track staying with the earlier detection          *)
(***************************************************************************)
DistanciaATrack(det, t) ==
    Distancia2(det.centro[1], det.centro[2],
               t.historial_posiciones[Len(t.historial_posiciones)][1],
               t.historial_posiciones[Len(t.historial_posiciones)][2])

Libres(tr, det, usados) ==
    {i \in 1..Len(tr) :
        /\ tr[i].track_id \notin usados
        /\ tr[i].categoria = det.categoria
        /\ DistanciaATrack(det, tr[i]) < UmbralDistancia * UmbralDistancia}

C27_ElMasCercanoEnOrden ==
    [][(ultima_op' = "procesar_detecciones" /\ Len(resultado') = Len(entrada'))
          => \A k \in 1..Len(resultado') :
                 LET det == entrada'[k]
                     id == resultado'[k].track_id
                     libres == Libres(tracks, det, UsadosAntes(resultado', k))
                 IN  IF libres = {}
                     THEN id \notin Ids(tracks)
                     ELSE \E i \in libres :
                              /\ tracks[i].track_id = id
                              /\ \A m \in libres :
                                     \/ DistanciaATrack(det, tracks[i])
                                            < DistanciaATrack(det, tracks[m])
                                     \/ /\ DistanciaATrack(det, tracks[i])
                                               = DistanciaATrack(det, tracks[m])
                                        /\ i <= m]_vars

\* tracks 1 and 2 stood at 100 and 190; the frame's first detection, at 145
\* and 45 px from both, took track 1, and the second, at 100 where track 1
\* stood, took track 2, 90 px away
C27_Testigo ==
    /\ Len(resultado) = 2
    /\ Len(entrada) = 2
    /\ entrada[1].centro = <<145, 0>>
    /\ entrada[2].centro = <<100, 0>>
    /\ resultado[1].track_id = 1
    /\ resultado[2].track_id = 2
    /\ \E i, j \in 1..Len(tracks) :
           /\ tracks[i].track_id = 1 /\ tracks[i].frames_vistos >= 2
           /\ tracks[j].track_id = 2 /\ tracks[j].frames_vistos >= 2
           /\ Anterior(tracks[i]) = 100
           /\ Anterior(tracks[j]) = 190

(***************************************************************************)
(* C28: in every reachable state the history of every track of the table   *)
(* holds between 1 and 50 entries and is, in chronological order, the most *)
(* recent min(n, 50) of the n samples applied to the track since its       *)
(* creation.  In SpecHistorial a track receives the sample of every frame, *)
(* so its n samples are those of the last n frames.                        *)
(***************************************************************************)
C28_HistorialReciente ==
    \A i \in 1..Len(tracks) :
        LET h == tracks[i].historial_posiciones
            n == tracks[i].frames_vistos
        IN  /\ Len(h) >= 1
            /\ Len(h) <= 50
            /\ Len(h) = Min(n, 50)
            /\ n <= n_frames
            /\ \A k \in 1..Len(h) : h[k] = Muestra(n_frames - Len(h) + k - 1)

\* a track that has received 52 samples: the two oldest are gone
C28_Testigo ==
    \E i \in 1..Len(tracks) :
        /\ tracks[i].frames_vistos = 52
        /\ Len(tracks[i].historial_posiciones) = 50
        /\ tracks[i].historial_posiciones[1] = Muestra(n_frames - 50)

(***************************************************************************)
(* C29: when the crossing callbacks and _on_reiniciar each run to their    *)
(* end without interleaving, after any sequence of frames and resets the   *)
(* buffer of the logger holds as many records as obtener_total_cruces      *)
(* gives for 'total', and the k-th record appended since the last reset    *)
(* has total_sesion = k = total_dir0 + total_dir1                          *)
(***************************************************************************)
C29_BufferIgualAlTotal ==
    /\ Len(buffer_registros) = ObtenerTotalCruces(contadores).total
    /\ \A k \in 1..Len(buffer_registros) :
           /\ buffer_registros[k].total_sesion = k
           /\ buffer_registros[k].total_sesion
                  = buffer_registros[k].total_dir0 + buffer_registros[k].total_dir1

\* an 'adulto' and a 'bicicleta' crossed in the same frame: two records, the
\* first with a session total of 1 and the second of 2
C29_Testigo ==
    /\ Len(llamadas) = 2
    /\ Len(buffer_registros) = 2
    /\ buffer_registros[1].tipo # buffer_registros[2].tipo
    /\ buffer_registros[1].total_tipo = 1
    /\ buffer_registros[2].total_sesion = 2

(***************************************************************************)
(* C30: in every reachable state every track of the table with             *)
(* puede_cruzar false has cruzado true, and cruzado, once true, stays true *)
(* for as long as the track is in the table                                *)
(***************************************************************************)
C30_DesarmadoImplicaCruzado ==
    [][/\ \A j \in 1..Len(tracks') : ~tracks'[j].puede_cruzar => tracks'[j].cruzado
       /\ ultima_op' = "procesar_detecciones"
              => \A i \in 1..Len(tracks) :
                     LET j == IndiceTrack(tracks', tracks[i].track_id)
                     IN  (tracks[i].cruzado /\ j # 0) => tracks'[j].cruzado]_vars

\* a track disarmed by its only crossing is, one or more samples later, still
\* disarmed and still marked as crossed
C30_Testigo ==
    \E i \in 1..Len(tracks) :
        /\ tracks[i].cruzado
        /\ ~tracks[i].puede_cruzar
        /\ Len(tracks[i].registros) = 1
        /\ tracks[i].frames_vistos > tracks[i].registros[1][1]

=============================================================================
